---- MODULE Spec2Model ----
(***************************************************************************)
(* Weather aggregation layer of WeatherWise: the cache-or-fetch policy of  *)
(* src/weather/aggregator.ts over the two provider adapters               *)
(* (providers/weatherApi.ts, providers/openWeather.ts) and the three      *)
(* LRU/TTL stores.  Every aggregator operation is an async function: the  *)
(* code up to its first await is one action, and each resumption after an *)
(* awaited adapter promise settles is one further action, so calls of     *)
(* different callers interleave at the awaits exactly as on the event     *)
(* loop.                                                                   *)
(***************************************************************************)
EXTENDS Integers, Sequences, FiniteSets, TLC

VARIABLES config, now, currentCache, forecastCache, historicalCache, calls, started,
          alerts, objects, expected, ret,
          schedulerStarted, intervalHandle, timers, timersMade, sweeps,
          ev, adapter, lru, keyed, fc

\* the alert service's state (alertService.ts) and the trip decision under test
alertVars == <<alerts, objects, expected, ret,
               schedulerStarted, intervalHandle, timers, timersMade, sweeps, ev>>

\* one adapter call, one cache store, one pair of cache keys and one forecast
\* bucketing, each taken on its own
unitVars == <<adapter, lru, keyed, fc>>

vars == <<config, now, currentCache, forecastCache, historicalCache, calls, started,
          alerts, objects, expected, ret,
          schedulerStarted, intervalHandle, timers, timersMade, sweeps, ev,
          adapter, lru, keyed, fc>>

(***************************************************************************)
(* Bounds of the model.                                                    *)
(***************************************************************************)
\* the clock stops advancing here
MaxTime == 2
\* capacity of each store in the model (the code's stores hold `max` entries)
CacheMax == 1
\* aggregator calls begun in one run of the process
MaxCalls == 2

\* the contexts that call the aggregator concurrently: a request handler and
\* the alert sweep
Callers == {"handler", "sweep"}

(***************************************************************************)
(* Configuration (config.ts).  Times are counted in model ticks.           *)
(***************************************************************************)
defaultUnits == "metric"
cacheTtlSeconds == 1
forecastCacheTtlSeconds == 2

(***************************************************************************)
(* Inputs.                                                                 *)
(***************************************************************************)
Undef == "undefined"

qCity == [city |-> "Paris", country |-> Undef, lat |-> Undef, lon |-> Undef]
qNone == [city |-> Undef, country |-> "FR", lat |-> "48.85", lon |-> Undef]

Queries == {qCity, qNone}
UnitsIn == {Undef, "metric", "imperial"}
\* day counts a caller passes (the handlers admit 1..7); NoDays: argument omitted
NoDays == 0
DaysIn == {NoDays, 1}
DatesIn == {"2024-05-01"}
\* what upstream answers: the observation carried by a normalized record
Payloads == {1, 2}

(***************************************************************************)
(* Normalized records: the provider tag and the upstream observation.      *)
(***************************************************************************)
Null == [provider |-> "null", data |-> 0]

\* variant: the WeatherAPI adapter tags its record with the other identity
WaRecord_Mistagged(d) == [provider |-> "openweather", data |-> d]

\* the record an adapter builds: its own `provider` literal and upstream's data
WaRecord(d) == [provider |-> "weatherapi", data |-> d]
OwRecord(d) == [provider |-> "openweather", data |-> d]

(***************************************************************************)
(* keyOf: `${prefix}:${JSON.stringify(q)}:${JSON.stringify(extra ?? {})}`.  *)
(* An object is a sequence of <<field, value>> pairs in property order;    *)
(* JSON.stringify drops the properties whose value is undefined.           *)
(***************************************************************************)
NumStr(n) == CASE n = 1 -> "1" [] n = 2 -> "2" [] n = 3 -> "3" [] OTHER -> "n"

Defined(pair) == pair[2] # Undef

\* number values are written as their decimal strings; JSON has no spelling
\* for these three, and JSON.stringify writes null for each
NonFinite == {"NaN", "Infinity", "-Infinity"}

JSONvalue(v) == IF v \in NonFinite THEN "null" ELSE v

JSONstringify(obj) ==
    LET kept == SelectSeq(obj, Defined)
    IN [i \in 1..Len(kept) |-> <<kept[i][1], JSONvalue(kept[i][2])>>]

QueryObject(q) ==
    << <<"city", q.city>>, <<"country", q.country>>, <<"lat", q.lat>>, <<"lon", q.lon>> >>

keyOf(prefix, q, extra) == <<prefix, JSONstringify(QueryObject(q)), JSONstringify(extra)>>

(***************************************************************************)
(* lru-cache stores.  A store is the sequence of its entries from the      *)
(* least recently used (head) to the most recently used (tail).            *)
(***************************************************************************)
IndexOf(store, key) ==
    IF \E i \in 1..Len(store) : store[i].key = key
    THEN CHOOSE i \in 1..Len(store) : store[i].key = key
    ELSE 0

Without(store, i) == [j \in 1..(Len(store) - 1) |-> IF j < i THEN store[j] ELSE store[j + 1]]

\* variant: an entry already counts as stale when its age equals the TTL
IsStale_AtTtl(entry, t, ttl) == t - entry.start >= ttl

IsStale(entry, t, ttl) == t - entry.start > ttl

\* value returned by store.get(key) at time t
CacheGet(store, key, t, ttl) ==
    LET i == IndexOf(store, key)
    IN IF i = 0 THEN Null
       ELSE IF IsStale(store[i], t, ttl) THEN Null
       ELSE store[i].value

\* a variant in which a hit leaves the entry where it is (first in, first out)
CacheAfterGet_NoRefresh(store, key, t, ttl) ==
    LET i == IndexOf(store, key)
    IN IF i = 0 THEN store
       ELSE IF IsStale(store[i], t, ttl) THEN Without(store, i)
       ELSE store

\* a variant in which a hit restarts the entry's age
CacheAfterGet_Touch(store, key, t, ttl) ==
    LET i == IndexOf(store, key)
    IN IF i = 0 THEN store
       ELSE IF IsStale(store[i], t, ttl) THEN Without(store, i)
       ELSE Append(Without(store, i), [store[i] EXCEPT !.start = t])

\* the store after store.get(key): a stale entry is deleted, a live one
\* becomes the most recently used; its age is not refreshed
CacheAfterGet(store, key, t, ttl) ==
    LET i == IndexOf(store, key)
    IN IF i = 0 THEN store
       ELSE IF IsStale(store[i], t, ttl) THEN Without(store, i)
       ELSE Append(Without(store, i), store[i])

\* a variant that never evicts
StoreSet_Unbounded(store, key, value, t, max) ==
    LET i == IndexOf(store, key)
        e == [key |-> key, value |-> value, start |-> t]
    IN IF i # 0 THEN Append(Without(store, i), e) ELSE Append(store, e)

\* store.set(key, value) at time t on a store that holds `max` entries
StoreSet(store, key, value, t, max) ==
    LET i == IndexOf(store, key)
        e == [key |-> key, value |-> value, start |-> t]
    IN IF i # 0 THEN Append(Without(store, i), e)
       ELSE IF Len(store) >= max THEN Append(Tail(store), e)
       ELSE Append(store, e)

\* a variant in which a key that is present keeps its entry
CacheSet_FirstWins(store, key, value, t) ==
    IF IndexOf(store, key) # 0 THEN store ELSE StoreSet(store, key, value, t, CacheMax)

\* the store after store.set(key, value) at time t
CacheSet(store, key, value, t) == StoreSet(store, key, value, t, CacheMax)

StoreOf(op) ==
    CASE op = "current" -> currentCache
      [] op = "forecast" -> forecastCache
      [] OTHER -> historicalCache

TtlOf(op) == IF op = "forecast" THEN forecastCacheTtlSeconds ELSE cacheTtlSeconds

(***************************************************************************)
(* Provider adapters.  Each adapter first resolves the query and throws    *)
(* before any network call when it has neither a city nor a complete       *)
(* lat/lon pair; otherwise it issues one HTTP GET whose outcome upstream   *)
(* decides.                                                                *)
(***************************************************************************)
\* a variant that only looks at the city
resolveQuery_CityOnly(q) == q.city \notin {Undef, ""}

\* `q.lat != null && q.lon != null`, else `if (q.city)`: whether it returns
\* rather than throws
resolveQuery(q) == (q.lat # Undef /\ q.lon # Undef) \/ q.city \notin {Undef, ""}

resolveQueryParams(q) == (q.lat # Undef /\ q.lon # Undef) \/ q.city \notin {Undef, ""}

Resolves(provider, q) ==
    IF provider = "weatherapi" THEN resolveQuery(q) ELSE resolveQueryParams(q)

\* outcomes of an adapter promise whose HTTP call was issued.  Whatever is
\* thrown after the request (a failed exchange, a response without the
\* expected fields) rejects the promise alike: "TransportError".
NetOutcomes == {"ok", "TransportError"}

\* the outcomes an adapter invocation can settle with
AdapterOutcomes(provider, q) ==
    IF Resolves(provider, q) THEN NetOutcomes ELSE {"InvalidQuery"}

Attempt(provider) == [provider |-> provider, outcome |-> "pending", produced |-> Null]

(***************************************************************************)
(* Errors that leave the aggregator.                                       *)
(***************************************************************************)
NoError == [from |-> "none", message |-> "none"]

\* aggregator.ts throws at the end of each operation when data is still null
NoDataError(op) ==
    IF op = "historical"
    THEN [from |-> "aggregator",
          message |-> "Historical data not available with current configuration."]
    ELSE [from |-> "aggregator",
          message |-> "No weather provider available. Please set API keys in .env"]

AdapterError(provider, outcome) == [from |-> provider, message |-> outcome]

(***************************************************************************)
(* One aggregator call.  pc is the position of the async function: "wa" /  *)
(* "ow" while it awaits that adapter, "done" once it has returned or       *)
(* thrown.  attempts lists the adapters invoked by this call, net counts   *)
(* its HTTP calls.  seen, entryStart and intact are history: the live      *)
(* entry the lookup found (NoEntry on a miss), the age stamp of the entry  *)
(* the call returned, and whether that entry has stayed in its store       *)
(* untouched since.                                                        *)
(***************************************************************************)
NoEntry == [value |-> Null, start |-> -1]

Idle ==
    [pc |-> "idle", op |-> "none", q |-> qNone, key |-> <<>>, attempts |-> <<>>,
     net |-> 0, outcome |-> "none", err |-> NoError, result |-> Null,
     seen |-> NoEntry, entryStart |-> 0, intact |-> FALSE]

Entry(store, key) ==
    LET i == IndexOf(store, key)
    IN IF i = 0 THEN NoEntry ELSE [value |-> store[i].value, start |-> store[i].start]

\* history bookkeeping: a finished call's entry is no longer intact once the
\* store op drops or replaces it
Track(op, newStore) ==
    [d \in Callers |->
        IF /\ calls[d].intact
           /\ calls[d].op = op
           /\ Entry(newStore, calls[d].key) # Entry(StoreOf(op), calls[d].key)
        THEN [calls[d] EXCEPT !.intact = FALSE]
        ELSE calls[d]]

SetStore(op, newStore) ==
    /\ currentCache' = IF op = "current" THEN newStore ELSE currentCache
    /\ forecastCache' = IF op = "forecast" THEN newStore ELSE forecastCache
    /\ historicalCache' = IF op = "historical" THEN newStore ELSE historicalCache

\* variant: the key check is skipped
UseWeatherApi_Always == TRUE

\* `if (config.weatherApiKey)`
UseWeatherApi == config.weatherApiKey

\* variant: OpenWeather is called although data is already set
UseOpenWeather_IgnoresData(op, data) ==
    /\ op \in {"current", "forecast"}
    /\ config.openWeatherApiKey

\* variant: the key check is skipped
UseOpenWeather_IgnoresKey(op, data) ==
    /\ op \in {"current", "forecast"}
    /\ data = Null

\* variant: getHistorical falls back like the other two operations
UseOpenWeather_AnyOp(op, data) ==
    /\ data = Null
    /\ config.openWeatherApiKey

\* `if (!data && config.openWeatherApiKey)`; getHistorical has no such branch
UseOpenWeather(op, data) ==
    /\ op \in {"current", "forecast"}
    /\ data = Null
    /\ config.openWeatherApiKey

\* variant: the WeatherAPI call is awaited outside the try block
WaCaught_Propagates(outcome) == FALSE

\* the WeatherAPI call sits in try/catch: its failure only logs a warning
WaCaught(outcome) == TRUE

\* the OpenWeather call is awaited outside any try/catch
OwCaught(outcome) == FALSE

Invoke(call, provider) ==
    [call EXCEPT !.pc = IF provider = "weatherapi" THEN "wa" ELSE "ow",
                 !.attempts = Append(@, Attempt(provider)),
                 !.net = @ + (IF Resolves(provider, call.q) THEN 1 ELSE 0)]

Throw(call, error) ==
    [call EXCEPT !.pc = "done", !.outcome = "error", !.err = error]

Return(call, data, entryStart) ==
    [call EXCEPT !.pc = "done", !.outcome = "ok", !.result = data,
                 !.entryStart = entryStart, !.intact = TRUE]

\* `if (!data) throw new Error(...); cache.set(key, data); return data;`
Conclude(call, data) ==
    IF data = Null THEN Throw(call, NoDataError(call.op)) ELSE Return(call, data, now)

\* the code after the WeatherAPI block, entered with data null or set
Continue(call, data) ==
    IF UseOpenWeather(call.op, data) THEN Invoke(call, "openweather") ELSE Conclude(call, data)

\* variant: the set is left out
StoreOnSuccess_NoSet(store, key, data, t) == store

\* the store after a call that fetched `data` reaches its cache.set
StoreOnSuccess(store, key, data, t) == CacheSet(store, key, data, t)

\* the call returned a record it fetched from a provider
Fresh(call) == call.pc = "done" /\ call.outcome = "ok" /\ call.attempts # <<>>

\* variant: the set is reached by a call that throws as well
Commit_AlsoOnError(c, newCall, store1) ==
    LET store2 == IF newCall.pc = "done" /\ newCall.attempts # <<>>
                  THEN StoreOnSuccess(store1, newCall.key, newCall.result, now)
                  ELSE store1
    IN /\ SetStore(newCall.op, store2)
       /\ calls' = [Track(newCall.op, store2) EXCEPT ![c] = newCall]

\* one step of caller c: its record becomes newCall, the store of its
\* operation (already looked up: store1) takes the set of a fresh result
Commit(c, newCall, store1) ==
    LET store2 == IF Fresh(newCall)
                  THEN StoreOnSuccess(store1, newCall.key, newCall.result, now)
                  ELSE store1
    IN /\ SetStore(newCall.op, store2)
       /\ calls' = [Track(newCall.op, store2) EXCEPT ![c] = newCall]

\* a live entry under key, as the lookup at time t finds it (NoEntry: none)
LiveEntry(store, key, t, ttl) ==
    IF \E i \in 1..Len(store) : store[i].key = key /\ t - store[i].start <= ttl
    THEN Entry(store, key)
    ELSE NoEntry

\* variant: the cached value is never returned
Truthy_Never(cached) == FALSE

\* variant: a cached record of the fallback provider is passed over
Truthy_PrimaryOnly(cached) == cached # Null /\ cached.provider = "weatherapi"

\* `if (cached) return cached;`
Truthy(cached) == cached # Null

\* the shared body of the three operations up to the first await
Enter(c, op, q, key) ==
    LET store == StoreOf(op)
        cached == CacheGet(store, key, now, TtlOf(op))
        store1 == CacheAfterGet(store, key, now, TtlOf(op))
        seen == LiveEntry(store, key, now, TtlOf(op))
        call == [Idle EXCEPT !.op = op, !.q = q, !.key = key, !.seen = seen]
    IN /\ calls[c].pc \in {"idle", "done"}
       /\ started < MaxCalls
       /\ started' = started + 1
       /\ IF Truthy(cached)
          THEN Commit(c, Return(call, cached, Entry(store, key).start), store1)
          ELSE IF UseWeatherApi
          THEN Commit(c, Invoke(call, "weatherapi"), store1)
          ELSE Commit(c, Continue(call, Null), store1)
       /\ UNCHANGED <<config, now>>
       /\ UNCHANGED <<alertVars, unitVars>>

\* `units: Units = config.defaultUnits`
UnitsOr(unitsArg) == IF unitsArg = Undef THEN defaultUnits ELSE unitsArg

\* `days: number = 3`
DaysOr(daysArg) == IF daysArg = NoDays THEN 3 ELSE daysArg

\* keyOf("current", q, { units })
CurrentKey(q, unitsArg) == keyOf("current", q, << <<"units", UnitsOr(unitsArg)>> >>)

\* keyOf("forecast", q, { units, days })
ForecastKey(q, unitsArg, daysArg) ==
    keyOf("forecast", q,
          << <<"units", UnitsOr(unitsArg)>>, <<"days", NumStr(DaysOr(daysArg))>> >>)

\* keyOf("historical", q, { dateISO })
HistoricalKey(q, dateISO) == keyOf("historical", q, << <<"dateISO", dateISO>> >>)

getCurrentWeather(c, q, unitsArg) == Enter(c, "current", q, CurrentKey(q, unitsArg))

getForecast(c, q, unitsArg, daysArg) ==
    Enter(c, "forecast", q, ForecastKey(q, unitsArg, daysArg))

getHistorical(c, q, dateISO) == Enter(c, "historical", q, HistoricalKey(q, dateISO))

Settle(call, outcome, record) ==
    [call EXCEPT !.attempts[Len(call.attempts)].outcome = outcome,
                 !.attempts[Len(call.attempts)].produced = record]

\* resumption after `await wa.getCurrent / getForecast / getHistorical`
WeatherApiSettled(c, outcome, d) ==
    LET call == Settle(calls[c], outcome, IF outcome = "ok" THEN WaRecord(d) ELSE Null)
    IN /\ calls[c].pc = "wa"
       /\ outcome \in AdapterOutcomes("weatherapi", calls[c].q)
       /\ outcome # "ok" => d = 1
       /\ IF outcome = "ok"
          THEN Commit(c, Continue(call, WaRecord(d)), StoreOf(call.op))
          ELSE IF WaCaught(outcome)
          THEN Commit(c, Continue(call, Null), StoreOf(call.op))
          ELSE Commit(c, Throw(call, AdapterError("weatherapi", outcome)), StoreOf(call.op))
       /\ UNCHANGED <<config, now, started>>
       /\ UNCHANGED <<alertVars, unitVars>>

\* resumption after `await ow.getCurrent / getForecast`
OpenWeatherSettled(c, outcome, d) ==
    LET call == Settle(calls[c], outcome, IF outcome = "ok" THEN OwRecord(d) ELSE Null)
    IN /\ calls[c].pc = "ow"
       /\ outcome \in AdapterOutcomes("openweather", calls[c].q)
       /\ outcome # "ok" => d = 1
       /\ IF outcome = "ok"
          THEN Commit(c, Conclude(call, OwRecord(d)), StoreOf(call.op))
          ELSE IF OwCaught(outcome)
          THEN Commit(c, Conclude(call, Null), StoreOf(call.op))
          ELSE Commit(c, Throw(call, AdapterError("openweather", outcome)), StoreOf(call.op))
       /\ UNCHANGED <<config, now, started>>
       /\ UNCHANGED <<alertVars, unitVars>>

\* the wall clock advances
Tick ==
    /\ now < MaxTime
    /\ now' = now + 1
    /\ UNCHANGED <<config, currentCache, forecastCache, historicalCache, calls, started>>
    /\ UNCHANGED <<alertVars, unitVars>>

(***************************************************************************)
(* Alert service (alertService.ts): the registry.                          *)
(* `objects` is the heap of WeatherAlert records ever created, an alert's  *)
(* reference being its index; `alerts` is the Map from id to record, kept  *)
(* as the sequence of its entries in insertion order.                      *)
(***************************************************************************)
\* registerAlert calls in one run of the process
MaxAlerts == 2
\* what Math.random().toString(36).slice(2) can yield
Ids == {"k3x", "9qz"}

\* absent optional fields
NoThreshold == 9999
Never == 0 - 1

\* the definitions the callers register, the n-th registerAlert call of a run
\* taking the n-th of them in turn
AlertDefSeq ==
    << [type |-> "temp_above", threshold |-> 30, daysAhead |-> NoDays,
        channel |-> "console", webhookUrl |-> Undef, sensitivity |-> Undef],
       [type |-> "rain", threshold |-> NoThreshold, daysAhead |-> 1,
        channel |-> "webhook", webhookUrl |-> "https://hook", sensitivity |-> "high"] >>

AlertDefs == { AlertDefSeq[n] : n \in 1..Len(AlertDefSeq) }

DefAt(n) == AlertDefSeq[((n - 1) % Len(AlertDefSeq)) + 1]

MapHas(map, k) == \E i \in 1..Len(map) : map[i].id = k

MapGet(map, k) == (CHOOSE i \in 1..Len(map) : map[i].id = k)

\* Map.prototype.set: a present key keeps its position and gets the new value
MapSet(map, k, ref) ==
    IF MapHas(map, k)
    THEN [map EXCEPT ![MapGet(map, k)].ref = ref]
    ELSE Append(map, [id |-> k, ref |-> ref])

MapDelete_Clear(map, k) == <<>>

\* Map.prototype.delete
MapDelete(map, k) == SelectSeq(map, LAMBDA e : e.id # k)

\* Array.from(alerts.values()): the records, by reference, in insertion order
listAlerts == [i \in 1..Len(alerts) |-> alerts[i].ref]

\* the last call's return value: the record returned, by reference, or the flag
NoReturn == [op |-> "none", ref |-> 0, ok |-> FALSE]

\* `id` is what generateId() returned
registerAlert(def, id) ==
    LET ref == Len(objects) + 1
        full == [type |-> def.type, threshold |-> def.threshold,
                 daysAhead |-> def.daysAhead, channel |-> def.channel,
                 webhookUrl |-> def.webhookUrl, sensitivity |-> def.sensitivity,
                 id |-> id, createdAt |-> now, lastTriggeredAt |-> Never]
    IN /\ Len(objects) < MaxAlerts
       /\ objects' = Append(objects, full)
       /\ alerts' = MapSet(alerts, id, ref)
       /\ expected' = Append(expected, ref)
       /\ ret' = [op |-> "registerAlert", ref |-> ref, ok |-> TRUE]
       /\ UNCHANGED <<schedulerStarted, intervalHandle, timers, timersMade, sweeps, ev>>
       /\ UNCHANGED <<config, now, currentCache, forecastCache, historicalCache, calls, started,
                   unitVars>>

removeAlert(id) ==
    /\ alerts' = MapDelete(alerts, id)
    /\ ret' = [op |-> "removeAlert", ref |-> 0, ok |-> MapHas(alerts, id)]
    /\ expected' = SelectSeq(expected, LAMBDA r : objects[r].id # id)
    /\ UNCHANGED <<objects, schedulerStarted, intervalHandle, timers, timersMade, sweeps, ev>>
    /\ UNCHANGED <<config, now, currentCache, forecastCache, historicalCache, calls, started,
                   unitVars>>

(***************************************************************************)
(* Alert service: the trip decision of evaluateAlert.                      *)
(* Temperatures, wind speeds and rain chances are counted in tenths of     *)
(* their unit.  adjustThreshold multiplies IEEE-754 doubles, so its result *)
(* is the exact product in tenths together with the direction in which the *)
(* double product was rounded away from the double of the exact decimal    *)
(* value (30 * 1.1 is 33, 50 * 1.1 is 55.00000000000001).                  *)
(***************************************************************************)
\* an absent optional number of a normalized record
NoValue == 99999

ThresholdsIn == {0 - 10, 0, 30, 37, 50}
SensitivitiesIn == {Undef, "low", "medium", "high"}

\* the <<base, sensitivity>> pairs of the model whose double product lies
\* above the exact product: 37 * 0.9 = 33.300000000000004 and
\* 50 * 1.1 = 55.00000000000001; every other product of the model is exact
RoundedUp == { <<37, "high">>, <<50, "low">> }

Rounding(base, sensitivity) == IF <<base, sensitivity>> \in RoundedUp THEN 1 ELSE 0

adjustThreshold(base, sensitivity) ==
    IF sensitivity = Undef \/ sensitivity = "medium"
    THEN [tenths |-> 10 * base, excess |-> 0]
    ELSE IF sensitivity = "high"
    THEN [tenths |-> 9 * base, excess |-> Rounding(base, sensitivity)]
    ELSE [tenths |-> 11 * base, excess |-> Rounding(base, sensitivity)]

\* x >= adjusted and x <= adjusted on doubles, x a reading in tenths
AtLeast(x, adj) == x > adj.tenths \/ (x = adj.tenths /\ adj.excess <= 0)
AtMost(x, adj) == x < adj.tenths \/ (x = adj.tenths /\ adj.excess >= 0)

\* v ?? 0
OrZero(v) == IF v = NoValue THEN 0 ELSE v

\* the upstream request evaluateAlert makes for an alert
Asks(a) ==
    IF a.type = "rain"
    THEN [op |-> "forecast", days |-> IF a.daysAhead = NoDays THEN 1 ELSE a.daysAhead]
    ELSE [op |-> "current", days |-> NoDays]

\* variant: the threshold is compared without the null check
HasThreshold_Always(a) == TRUE

\* `cond.threshold != null`
HasThreshold(a) == a.threshold # NoThreshold

\* whether evaluateAlert calls notify, given what the aggregator returned
Trips(a, obs) ==
    IF a.type = "rain"
    THEN \E i \in 1..Len(obs.days) :
             AtLeast(OrZero(obs.days[i]), adjustThreshold(50, a.sensitivity))
    ELSE IF a.type = "temp_above" /\ HasThreshold(a)
    THEN AtLeast(obs.temperatureC, adjustThreshold(a.threshold, a.sensitivity))
    ELSE IF a.type = "temp_below" /\ HasThreshold(a)
    THEN AtMost(obs.temperatureC, adjustThreshold(a.threshold, a.sensitivity))
    ELSE IF a.type = "wind_above" /\ HasThreshold(a)
    THEN AtLeast(OrZero(obs.windKph), adjustThreshold(a.threshold, a.sensitivity))
    ELSE FALSE

(***************************************************************************)
(* Alert service: the scheduler and its sweeps.  `timers` are the active   *)
(* intervals of the event loop; every firing of one runs pollAlerts, whose *)
(* code up to its first await is one action and each resumption another.   *)
(***************************************************************************)
\* setInterval calls in one run of the process
MaxTimers == 2
\* firings of the interval in one run of the process
MaxSweeps == 1

NoHandle == 0

AlreadyStarted_Never == FALSE

\* the guard `if (schedulerStarted) return`
AlreadyStarted == schedulerStarted

clearInterval_Noop(active, handle) == active

clearInterval(active, handle) == active \ {handle}

startAlertScheduler ==
    /\ IF AlreadyStarted
       THEN UNCHANGED <<schedulerStarted, intervalHandle, timers, timersMade>>
       ELSE /\ timersMade < MaxTimers
            /\ schedulerStarted' = TRUE
            /\ intervalHandle' = timersMade + 1
            /\ timers' = timers \cup {timersMade + 1}
            /\ timersMade' = timersMade + 1
    /\ UNCHANGED <<alerts, objects, expected, ret, sweeps, ev>>
    /\ UNCHANGED <<config, now, currentCache, forecastCache, historicalCache, calls, started,
                   unitVars>>

stopAlertScheduler ==
    /\ timers' = IF intervalHandle # NoHandle
                 THEN clearInterval(timers, intervalHandle)
                 ELSE timers
    /\ intervalHandle' = NoHandle
    /\ schedulerStarted' = FALSE
    /\ UNCHANGED <<alerts, objects, expected, ret, timersMade, sweeps, ev>>
    /\ UNCHANGED <<config, now, currentCache, forecastCache, historicalCache, calls, started,
                   unitVars>>

\* what the aggregator hands back to a sweep
SweepObs(type) ==
    IF type = "rain"
    THEN { [temperatureC |-> 0, windKph |-> NoValue, days |-> <<d>>] : d \in {100, 600} }
    ELSE { [temperatureC |-> t, windKph |-> NoValue, days |-> <<>>] : t \in {200, 310} }

EvalCaught_Escapes(outcome) == FALSE

\* the try/catch around `await evaluateAlert(a)`
EvalCaught(outcome) == TRUE

\* the loop of pollAlerts moves to its next item
Advance(sw) ==
    LET nxt == sw.i + 1
    IN [sw EXCEPT !.evaluated = Append(@, sw.items[sw.i]),
                  !.i = nxt,
                  !.pc = IF nxt > Len(sw.items) THEN "done" ELSE "fetch"]

\* variant: a tick is skipped while an earlier sweep has not returned
Reentrant_Never(sws) == \A s \in 1..Len(sws) : sws[s].pc \in {"done", "failed"}

\* setInterval calls pollAlerts at every tick, and pollAlerts keeps no flag
\* that it is running: sweeps still awaiting do not hold a tick back
Reentrant(sws) == TRUE

\* an interval fires: pollAlerts up to the await inside its first evaluateAlert
pollAlerts(t) ==
    /\ t \in timers
    /\ Reentrant(sweeps)
    /\ sweeps' = Append(sweeps,
                        [items |-> listAlerts, i |-> 1,
                         pc |-> IF listAlerts = <<>> THEN "done" ELSE "fetch",
                         evaluated |-> <<>>, caught |-> FALSE, late |-> FALSE,
                         sent |-> <<>>])
    /\ UNCHANGED <<alerts, objects, expected, ret,
                   schedulerStarted, intervalHandle, timers, timersMade, ev>>
    /\ UNCHANGED <<config, now, currentCache, forecastCache, historicalCache, calls, started,
                   unitVars>>

Stamp_CreatedAt(a, t) == [a EXCEPT !.createdAt = t + 1]

\* alert.lastTriggeredAt = new Date().toISOString()
Stamp(a, t) == [a EXCEPT !.lastTriggeredAt = t]

\* what notify dispatches for an alert: a console line, one POST, or nothing
Dispatch(a) ==
    IF a.channel = "console" THEN "console"
    ELSE IF a.channel = "webhook" /\ a.webhookUrl # Undef THEN "webhook"
    ELSE "none"

\* the sync part of notify, run when the awaited aggregator call has settled;
\* `sent` logs the trip: the alert, what was dispatched for it, and whether
\* removeAlert had taken the alert out before
notify(s, sw, ref) ==
    LET a == objects[ref]
        trip == [ref |-> ref, via |-> Dispatch(a),
                 removed |-> \A i \in 1..Len(expected) : expected[i] # ref]
        logged == [sw EXCEPT !.sent = Append(@, trip)]
        sent == [logged EXCEPT !.late = @ \/ timers = {}]
    IN /\ objects' = [objects EXCEPT ![ref] = Stamp(a, now)]
       /\ IF Dispatch(a) = "console"
          THEN sweeps' = [sweeps EXCEPT ![s] = Advance(sent)]
          ELSE IF Dispatch(a) = "webhook"
          THEN sweeps' = [sweeps EXCEPT ![s] = [sent EXCEPT !.pc = "post"]]
          ELSE sweeps' = [sweeps EXCEPT ![s] = Advance(logged)]

\* resumption of evaluateAlert after `await getForecast / getCurrentWeather`
AlertEvaluated(s, outcome, obs) ==
    LET sw == sweeps[s]
        ref == sw.items[sw.i]
        a == objects[ref]
    IN /\ s \in 1..Len(sweeps)
       /\ sw.pc = "fetch"
       /\ obs \in SweepObs(a.type)
       /\ outcome = "error" => obs = CHOOSE o \in SweepObs(a.type) : TRUE
       /\ IF outcome = "error"
          THEN /\ sweeps' = [sweeps EXCEPT ![s] =
                                IF EvalCaught(outcome)
                                THEN Advance([sw EXCEPT !.caught = TRUE])
                                ELSE [sw EXCEPT !.pc = "failed"]]
               /\ UNCHANGED objects
          ELSE IF Trips(a, obs)
          THEN notify(s, sw, ref)
          ELSE /\ sweeps' = [sweeps EXCEPT ![s] = Advance(sw)]
               /\ UNCHANGED objects
       /\ UNCHANGED <<alerts, expected, ret,
                      schedulerStarted, intervalHandle, timers, timersMade, ev>>
       /\ UNCHANGED <<config, now, currentCache, forecastCache, historicalCache, calls, started,
                   unitVars>>

\* variant: the POST is awaited outside the try block
PostCaught_Escapes(outcome) == FALSE

\* the try/catch around `await axios.post(...)`: a failure only logs a warning
PostCaught(outcome) == TRUE

\* resumption of notify after `await axios.post`: a failure is caught and
\* logged inside notify; one that was not would reject evaluateAlert and
\* reach the try/catch of pollAlerts
WebhookSettled(s, outcome) ==
    /\ s \in 1..Len(sweeps)
    /\ sweeps[s].pc = "post"
    /\ sweeps' = [sweeps EXCEPT ![s] =
                     IF outcome = "ok" \/ PostCaught(outcome)
                     THEN Advance(sweeps[s])
                     ELSE IF EvalCaught(outcome)
                     THEN Advance([sweeps[s] EXCEPT !.caught = TRUE])
                     ELSE [sweeps[s] EXCEPT !.pc = "failed"]]
    /\ UNCHANGED <<alerts, objects, expected, ret,
                   schedulerStarted, intervalHandle, timers, timersMade, ev>>
    /\ UNCHANGED <<config, now, currentCache, forecastCache, historicalCache, calls, started,
                   unitVars>>

(***************************************************************************)
(* One evaluation of one alert, for the trip decision on its own.          *)
(***************************************************************************)
NoObs == [temperatureC |-> 0, windKph |-> NoValue, days |-> <<>>]
NoAsk == [op |-> "none", days |-> NoDays]
NoAlert == [type |-> "none", threshold |-> NoThreshold, daysAhead |-> NoDays,
            sensitivity |-> Undef]
EvIdle == [pc |-> "idle", alert |-> NoAlert, asked |-> NoAsk, obs |-> NoObs,
           tripped |-> FALSE]

\* readings around every adjusted threshold of the model, in tenths
Readings ==
    { f * t + d : t \in ThresholdsIn \cup {50}, f \in {9, 10, 11}, d \in {0 - 1, 0, 1} }
        \cup {280}

CurrentIn ==
    { [temperatureC |-> x, windKph |-> NoValue, days |-> <<>>] : x \in Readings }
        \cup { [temperatureC |-> 200, windKph |-> w, days |-> <<>>] :
                   w \in {x \in Readings : x >= 0} }

RainIn == {NoValue, 0, 449, 450, 500, 549, 550, 551}

ForecastIn ==
    { [temperatureC |-> 0, windKph |-> NoValue, days |-> ds] :
          ds \in {<<>>} \cup { <<r>> : r \in RainIn }
                        \cup { <<r1, r2>> : r1 \in {NoValue, 0}, r2 \in RainIn } }

EvalAlerts ==
    { [type |-> ty, threshold |-> th, daysAhead |-> NoDays, sensitivity |-> se] :
          ty \in {"temp_above", "temp_below", "wind_above"},
          th \in ThresholdsIn \cup {NoThreshold}, se \in SensitivitiesIn }
        \cup { [type |-> "rain", threshold |-> NoThreshold, daysAhead |-> n,
                sensitivity |-> se] : n \in {NoDays, 1, 2}, se \in SensitivitiesIn }

\* evaluateAlert up to its await
EvalBegin ==
    /\ ev.pc = "start"
    /\ ev' = [ev EXCEPT !.pc = "fetch", !.asked = Asks(ev.alert)]
    /\ UNCHANGED <<alerts, objects, expected, ret,
                   schedulerStarted, intervalHandle, timers, timersMade, sweeps>>
    /\ UNCHANGED <<config, now, currentCache, forecastCache, historicalCache, calls, started,
                   unitVars>>

\* evaluateAlert after the aggregator returned `obs`
EvalSettled(obs) ==
    /\ ev.pc = "fetch"
    /\ obs \in IF ev.asked.op = "forecast" THEN ForecastIn ELSE CurrentIn
    /\ ev' = [ev EXCEPT !.pc = "done", !.obs = obs, !.tripped = Trips(ev.alert, obs)]
    /\ UNCHANGED <<alerts, objects, expected, ret,
                   schedulerStarted, intervalHandle, timers, timersMade, sweeps>>
    /\ UNCHANGED <<config, now, currentCache, forecastCache, historicalCache, calls, started,
                   unitVars>>

(***************************************************************************)
(* One adapter call on its own (providers/weatherApi.ts,                   *)
(* providers/openWeather.ts): the query is resolved before the request is  *)
(* built, and getForecast shapes what upstream answered into the days of   *)
(* the Forecast.  Dates are day numbers, ordered as their ISO strings are. *)
(***************************************************************************)
\* entries of one upstream forecast answer
MaxUpstream == 3

AdapterQueries ==
    [city : {Undef, "", "Paris"}, country : {Undef, "FR"},
     lat : {Undef, "0"}, lon : {Undef, "0"}]

\* the operations that take a query (openWeather's getHistorical takes none)
AdapterOps ==
    { <<"weatherapi", "current">>, <<"weatherapi", "forecast">>,
      <<"weatherapi", "historical">>,
      <<"openweather", "current">>, <<"openweather", "forecast">> }

\* the `days` argument: the tools pass 1..7, evaluateAlert passes the alert's
\* daysAhead, which is any number
DaysArgs == {0 - 1, 1, 2}

UpstreamDates == {1, 2, 3}

\* the dates of forecast.forecastday (WeatherAPI) or of the 3-hour slots of
\* list (OpenWeather), in the order upstream sent them
UpstreamLists ==
    UNION { [1..n -> UpstreamDates] : n \in 0..MaxUpstream }

RECURSIVE SortedSeq(_)
\* Object.keys(byDate).sort()
SortedSeq(S) ==
    IF S = {} THEN <<>>
    ELSE LET least == CHOOSE x \in S : \A y \in S : x <= y
         IN <<least>> \o SortedSeq(S \ {least})

\* Array.prototype.slice(0, end)
Slice(seq, end) ==
    LET n == Len(seq)
        e == IF end < 0 THEN (IF n + end < 0 THEN 0 ELSE n + end)
             ELSE IF end > n THEN n ELSE end
    IN SubSeq(seq, 1, e)

\* weatherApi.getForecast: forecastday mapped entry by entry
WaForecastDays(list, days) == list

\* openWeather.getForecast: slots bucketed by date, dates sorted, first `days`
OwForecastDays(list, days) ==
    Slice(SortedSeq({ list[i] : i \in 1..Len(list) }), days)

AdIdle == [pc |-> "idle", provider |-> "none", op |-> "none",
           q |-> [city |-> Undef, country |-> Undef, lat |-> Undef, lon |-> Undef],
           days |-> 1, outcome |-> "none", net |-> 0, daysOut |-> <<>>]

\* the adapter function up to its `await axios.get`
AdapterCalled ==
    /\ adapter.pc = "start"
    /\ adapter' = IF Resolves(adapter.provider, adapter.q)
                  THEN [adapter EXCEPT !.pc = "http", !.net = @ + 1]
                  ELSE [adapter EXCEPT !.pc = "done", !.outcome = "InvalidQuery"]
    /\ UNCHANGED <<config, now, currentCache, forecastCache, historicalCache, calls, started>>
    /\ UNCHANGED <<alertVars, lru, keyed, fc>>

\* the adapter function after upstream answered
AdapterSettled(outcome, list) ==
    /\ adapter.pc = "http"
    /\ outcome \in NetOutcomes
    /\ (outcome # "ok" \/ adapter.op # "forecast") => list = <<>>
    /\ adapter' = [adapter EXCEPT
                       !.pc = "done",
                       !.outcome = outcome,
                       !.daysOut = IF adapter.provider = "weatherapi"
                                   THEN WaForecastDays(list, adapter.days)
                                   ELSE OwForecastDays(list, adapter.days)]
    /\ UNCHANGED <<config, now, currentCache, forecastCache, historicalCache, calls, started>>
    /\ UNCHANGED <<alertVars, lru, keyed, fc>>

(***************************************************************************)
(* One cache store on its own, with room for more than one entry.  `used`  *)
(* and `born` note, per key, the count of operations at its last hit or    *)
(* set and at its insertion.                                               *)
(***************************************************************************)
\* capacity of the store taken on its own
LruMax == 2
\* operations on it in one run
MaxOps == 5

LruKeys == {"k1", "k2", "k3", "k4"}

KeysOf(store) == { store[i].key : i \in 1..Len(store) }

NoOp == [op |-> "none", key |-> "none", hit |-> FALSE, evicted |-> {}]

LruIdle == [store |-> <<>>, used |-> [k \in LruKeys |-> 0], born |-> [k \in LruKeys |-> 0],
            clock |-> 0, last |-> NoOp]

\* store.get(key)
LruGet(k) ==
    LET hit == CacheGet(lru.store, k, now, cacheTtlSeconds) # Null
    IN /\ lru.clock < MaxOps
       /\ lru' = [store |-> CacheAfterGet(lru.store, k, now, cacheTtlSeconds),
                  used |-> IF hit THEN [lru.used EXCEPT ![k] = lru.clock + 1] ELSE lru.used,
                  born |-> lru.born,
                  clock |-> lru.clock + 1,
                  last |-> [op |-> "get", key |-> k, hit |-> hit, evicted |-> {}]]
       /\ UNCHANGED <<config, now, currentCache, forecastCache, historicalCache, calls, started>>
       /\ UNCHANGED <<alertVars, adapter, keyed, fc>>

\* store.set(key, value)
LruSet(k, v) ==
    LET after == StoreSet(lru.store, k, v, now, LruMax)
    IN /\ lru.clock < MaxOps
       /\ lru' = [store |-> after,
                  used |-> [lru.used EXCEPT ![k] = lru.clock + 1],
                  born |-> IF k \in KeysOf(lru.store) THEN lru.born
                           ELSE [lru.born EXCEPT ![k] = lru.clock + 1],
                  clock |-> lru.clock + 1,
                  last |-> [op |-> "set", key |-> k, hit |-> k \in KeysOf(lru.store),
                            evicted |-> KeysOf(lru.store) \ KeysOf(after)]]
       /\ UNCHANGED <<config, now, currentCache, forecastCache, historicalCache, calls, started>>
       /\ UNCHANGED <<alertVars, adapter, keyed, fc>>

(***************************************************************************)
(* The cache keys of two aggregator calls, taken on their own.  A call is  *)
(* its operation and its arguments; an argument the operation does not     *)
(* take is left undefined.                                                 *)
(***************************************************************************)
\* lat and lon as the handlers pass them: the REST routes pass
\* parseFloat(req.query.lat), which is NaN or an infinity for some strings
KeyQueries ==
    [city : {Undef, "Paris"}, country : {Undef, "FR"},
     lat : {Undef, "48.85", "NaN", "Infinity"}, lon : {Undef, "2.35"}]

KeyDays == {NoDays, 1, 3}
KeyDates == {"2024-05-01", "2024-05-02"}

KeyCalls ==
    { [kind |-> "current", q |-> q, units |-> u, days |-> NoDays, dateISO |-> Undef] :
          q \in KeyQueries, u \in UnitsIn }
    \cup { [kind |-> "forecast", q |-> q, units |-> u, days |-> n, dateISO |-> Undef] :
              q \in KeyQueries, u \in UnitsIn, n \in KeyDays }
    \cup { [kind |-> "historical", q |-> q, units |-> Undef, days |-> NoDays, dateISO |-> dt] :
              q \in KeyQueries, dt \in KeyDates }

\* the key the aggregator function of the call's kind computes first
KeyFor(call) ==
    CASE call.kind = "current" -> CurrentKey(call.q, call.units)
      [] call.kind = "forecast" -> ForecastKey(call.q, call.units, call.days)
      [] OTHER -> HistoricalKey(call.q, call.dateISO)

NoKey == <<>>
NoCall == [kind |-> "none", q |-> [city |-> Undef, country |-> Undef, lat |-> Undef, lon |-> Undef],
           units |-> Undef, days |-> NoDays, dateISO |-> Undef]

KeyIdle == [pc |-> "idle", a |-> NoCall, b |-> NoCall, ka |-> NoKey, kb |-> NoKey]

\* the first call computes its key
FirstKeyed ==
    /\ keyed.pc = "first"
    /\ keyed' = [keyed EXCEPT !.pc = "second", !.ka = KeyFor(keyed.a)]
    /\ UNCHANGED <<config, now, currentCache, forecastCache, historicalCache, calls, started>>
    /\ UNCHANGED <<alertVars, adapter, lru, fc>>

\* a second call is made and computes its key
SecondKeyed(call) ==
    /\ keyed.pc = "second"
    /\ keyed' = [keyed EXCEPT !.pc = "done", !.b = call, !.kb = KeyFor(call)]
    /\ UNCHANGED <<config, now, currentCache, forecastCache, historicalCache, calls, started>>
    /\ UNCHANGED <<alertVars, adapter, lru, fc>>

(***************************************************************************)
(* openWeather.getForecast on its own: the 3-hour slots of upstream's      *)
(* `list` are bucketed by the UTC date of their `dt`, and each bucket      *)
(* becomes one day of the Forecast.  Times are counted in slots, DayLength *)
(* of them to a UTC day; the call is made with metric units, so a slot's   *)
(* main.temp is its tempC.                                                 *)
(***************************************************************************)
\* slots in one upstream answer
MaxSlots == 4
\* slots per UTC day
DayLength == 2

SlotTimes == 0..(2 * DayLength - 1)

\* one item of `list`: dt, rain["3h"] (0: absent or zero) and main.temp
SlotsIn == [dt : SlotTimes, rain : {0, 1}, temp : {10, 20}]

SlotLists == UNION { [1..n -> SlotsIn] : n \in 0..MaxSlots }

\* new Date(item.dt * 1000).toISOString().slice(0, 10)
IsoDate(dt) == dt \div DayLength

\* the slots of `list` that the loop adds to byDate[date], in list order
SlotsOf(list, date) == SelectSeq(list, LAMBDA item : IsoDate(item.dt) = date)

\* byDate[date] after the loop
ByDate(list, date) ==
    LET items == SlotsOf(list, date)
    IN [tempsC |-> [i \in 1..Len(items) |-> items[i].temp],
        rainSlots |-> Len(SelectSeq(items, LAMBDA item : item.rain # 0)),
        totalSlots |-> Len(items)]

\* Math.round((k / n) * 100): the nearest integer, a half going up (the
\* double product is exact enough for every n up to 39)
RoundPct(k, n) == (200 * k + n) \div (2 * n)

MathMax(seq) == CHOOSE x \in { seq[i] : i \in 1..Len(seq) } : \A i \in 1..Len(seq) : seq[i] <= x
MathMin(seq) == CHOOSE x \in { seq[i] : i \in 1..Len(seq) } : \A i \in 1..Len(seq) : seq[i] >= x

\* one element of daysOut
DayOut(list, date) ==
    LET rec == ByDate(list, date)
    IN [date |-> date,
        maxTempC |-> MathMax(rec.tempsC),
        minTempC |-> MathMin(rec.tempsC),
        chanceOfRainPct |-> IF rec.totalSlots # 0
                            THEN RoundPct(rec.rainSlots, rec.totalSlots)
                            ELSE NoValue]

\* Object.keys(byDate).sort().slice(0, days).map(...)
OwForecast(list, days) ==
    LET sortedDates == OwForecastDays([i \in 1..Len(list) |-> IsoDate(list[i].dt)], days)
    IN [i \in 1..Len(sortedDates) |-> DayOut(list, sortedDates[i])]

FcIdle == [pc |-> "idle", days |-> 1, list |-> <<>>, outcome |-> "none", out |-> <<>>]

\* getForecast up to its `await axios.get`
ForecastRequested ==
    /\ fc.pc = "start"
    /\ fc' = [fc EXCEPT !.pc = "http"]
    /\ UNCHANGED <<config, now, currentCache, forecastCache, historicalCache, calls, started>>
    /\ UNCHANGED <<alertVars, adapter, lru, keyed>>

\* getForecast after upstream answered with `list`
ForecastAnswered(outcome, list) ==
    /\ fc.pc = "http"
    /\ outcome \in NetOutcomes
    /\ outcome # "ok" => list = <<>>
    /\ fc' = [fc EXCEPT !.pc = "done", !.outcome = outcome, !.list = list,
                        !.out = IF outcome = "ok" THEN OwForecast(list, fc.days) ELSE <<>>]
    /\ UNCHANGED <<config, now, currentCache, forecastCache, historicalCache, calls, started>>
    /\ UNCHANGED <<alertVars, adapter, lru, keyed>>


AlertsInit ==
    /\ alerts = <<>>
    /\ objects = <<>>
    /\ expected = <<>>
    /\ ret = NoReturn
    /\ schedulerStarted = FALSE
    /\ intervalHandle = NoHandle
    /\ timers = {}
    /\ timersMade = 0
    /\ sweeps = <<>>

Init ==
    /\ config \in [weatherApiKey : BOOLEAN, openWeatherApiKey : BOOLEAN]
    /\ now = 0
    /\ currentCache = <<>>
    /\ forecastCache = <<>>
    /\ historicalCache = <<>>
    /\ calls = [c \in Callers |-> Idle]
    /\ started = 0
    /\ AlertsInit
    /\ ev = EvIdle
    /\ adapter = AdIdle
    /\ lru = LruIdle
    /\ keyed = KeyIdle
    /\ fc = FcIdle

Next ==
    \/ \E c \in Callers, q \in Queries, u \in UnitsIn : getCurrentWeather(c, q, u)
    \/ \E c \in Callers, q \in Queries, u \in {Undef, defaultUnits}, n \in DaysIn : getForecast(c, q, u, n)
    \/ \E c \in Callers, q \in Queries, dt \in DatesIn : getHistorical(c, q, dt)
    \/ \E c \in Callers, o \in NetOutcomes \cup {"InvalidQuery"}, d \in Payloads :
           WeatherApiSettled(c, o, d)
    \/ \E c \in Callers, o \in NetOutcomes \cup {"InvalidQuery"}, d \in Payloads :
           OpenWeatherSettled(c, o, d)
    \/ Tick

Spec == Init /\ [][Next]_vars

\* the alert service on its own: the aggregator is what a sweep's await on it
\* can return
InitAlerts ==
    /\ config = [weatherApiKey |-> TRUE, openWeatherApiKey |-> TRUE]
    /\ now = 0
    /\ currentCache = <<>>
    /\ forecastCache = <<>>
    /\ historicalCache = <<>>
    /\ calls = [c \in Callers |-> Idle]
    /\ started = 0
    /\ AlertsInit
    /\ ev = EvIdle
    /\ adapter = AdIdle
    /\ lru = LruIdle
    /\ keyed = KeyIdle
    /\ fc = FcIdle

NextAlerts ==
    \/ \E id \in Ids : registerAlert(DefAt(Len(objects) + 1), id)
    \/ \E id \in Ids : removeAlert(id)
    \/ startAlertScheduler
    \/ stopAlertScheduler
    \/ \E t \in timers : Len(sweeps) < MaxSweeps /\ pollAlerts(t)
    \/ \E s \in 1..MaxSweeps, o \in {"ok", "error"},
          obs \in SweepObs("rain") \cup SweepObs("temp_above") : AlertEvaluated(s, o, obs)
    \/ \E s \in 1..MaxSweeps, o \in {"ok", "error"} : WebhookSettled(s, o)

SpecAlerts == InitAlerts /\ [][NextAlerts]_vars

(***************************************************************************)
(* The alert service behind the register_alert tool: every channel and     *)
(* webhookUrl the tool's input schema admits, and sweeps that overlap when  *)
(* the interval fires again before the previous pollAlerts has returned.    *)
(***************************************************************************)
\* sweeps in one run of the process when the tool registers the alerts
MaxOverlap == 2

ChannelsIn == {Undef, "console", "webhook"}
UrlsIn == {Undef, "https://hook"}

\* the definition the register_alert handler passes on: channel ?? "console"
register_alert(channel, webhookUrl) ==
    [type |-> "temp_above", threshold |-> 30, daysAhead |-> NoDays,
     channel |-> IF channel = Undef THEN "console" ELSE channel,
     webhookUrl |-> webhookUrl, sensitivity |-> Undef]

NextDispatch ==
    \/ \E ch \in ChannelsIn, url \in UrlsIn, id \in Ids :
           registerAlert(register_alert(ch, url), id)
    \/ \E id \in Ids : removeAlert(id)
    \/ startAlertScheduler
    \/ \E t \in timers : Len(sweeps) < MaxOverlap /\ pollAlerts(t)
    \/ \E s \in 1..MaxOverlap, o \in {"ok", "error"}, obs \in SweepObs("temp_above") :
           AlertEvaluated(s, o, obs)
    \/ \E s \in 1..MaxOverlap, o \in {"ok", "error"} : WebhookSettled(s, o)

SpecDispatch == InitAlerts /\ [][NextDispatch]_vars

(***************************************************************************)
(* Sweeps over a registry in which a webhook alert precedes a console      *)
(* alert, the interval firing again while earlier sweeps are still         *)
(* awaiting.                                                               *)
(***************************************************************************)
\* the n-th registration: a webhook alert with its URL first, console after
WebhookFirst(n) ==
    register_alert(IF n = 1 THEN "webhook" ELSE "console",
                   IF n = 1 THEN "https://hook" ELSE Undef)

NextOverlap ==
    \/ \E id \in Ids : registerAlert(WebhookFirst(Len(objects) + 1), id)
    \/ startAlertScheduler
    \/ \E t \in timers : Len(sweeps) < MaxOverlap /\ pollAlerts(t)
    \/ \E s \in 1..MaxOverlap, o \in {"ok", "error"}, obs \in SweepObs("temp_above") :
           AlertEvaluated(s, o, obs)
    \/ \E s \in 1..MaxOverlap, o \in {"ok", "error"} : WebhookSettled(s, o)

SpecOverlap == InitAlerts /\ [][NextOverlap]_vars

InitEval ==
    /\ config = [weatherApiKey |-> TRUE, openWeatherApiKey |-> TRUE]
    /\ now = 0
    /\ currentCache = <<>>
    /\ forecastCache = <<>>
    /\ historicalCache = <<>>
    /\ calls = [c \in Callers |-> Idle]
    /\ started = 0
    /\ AlertsInit
    /\ \E a \in EvalAlerts :
           ev = [pc |-> "start", alert |-> a, asked |-> NoAsk, obs |-> NoObs,
                 tripped |-> FALSE]
    /\ adapter = AdIdle
    /\ lru = LruIdle
    /\ keyed = KeyIdle
    /\ fc = FcIdle

NextEval ==
    \/ EvalBegin
    \/ \E obs \in CurrentIn \cup ForecastIn : EvalSettled(obs)

SpecEval == InitEval /\ [][NextEval]_vars

InitAdapters ==
    /\ config = [weatherApiKey |-> TRUE, openWeatherApiKey |-> TRUE]
    /\ now = 0
    /\ currentCache = <<>>
    /\ forecastCache = <<>>
    /\ historicalCache = <<>>
    /\ calls = [c \in Callers |-> Idle]
    /\ started = 0
    /\ AlertsInit
    /\ ev = EvIdle
    /\ lru = LruIdle
    /\ keyed = KeyIdle
    /\ fc = FcIdle
    /\ \E po \in AdapterOps, q \in AdapterQueries, n \in DaysArgs :
           /\ po[2] # "forecast" => n = 1
           /\ adapter = [pc |-> "start", provider |-> po[1], op |-> po[2], q |-> q,
                         days |-> n, outcome |-> "none", net |-> 0, daysOut |-> <<>>]

NextAdapters ==
    \/ AdapterCalled
    \/ \E o \in NetOutcomes, list \in UpstreamLists : AdapterSettled(o, list)

SpecAdapters == InitAdapters /\ [][NextAdapters]_vars

InitCache ==
    /\ config = [weatherApiKey |-> TRUE, openWeatherApiKey |-> TRUE]
    /\ now = 0
    /\ currentCache = <<>>
    /\ forecastCache = <<>>
    /\ historicalCache = <<>>
    /\ calls = [c \in Callers |-> Idle]
    /\ started = 0
    /\ AlertsInit
    /\ ev = EvIdle
    /\ adapter = AdIdle
    /\ lru = LruIdle
    /\ keyed = KeyIdle
    /\ fc = FcIdle

NextCache ==
    \/ \E k \in LruKeys : LruGet(k)
    \/ \E k \in LruKeys : LruSet(k, WaRecord(1))
    \/ Tick

SpecCache == InitCache /\ [][NextCache]_vars

InitKeys ==
    /\ config = [weatherApiKey |-> TRUE, openWeatherApiKey |-> TRUE]
    /\ now = 0
    /\ currentCache = <<>>
    /\ forecastCache = <<>>
    /\ historicalCache = <<>>
    /\ calls = [c \in Callers |-> Idle]
    /\ started = 0
    /\ AlertsInit
    /\ ev = EvIdle
    /\ adapter = AdIdle
    /\ lru = LruIdle
    /\ fc = FcIdle
    /\ \E call \in KeyCalls : keyed = [KeyIdle EXCEPT !.pc = "first", !.a = call]

NextKeys ==
    \/ FirstKeyed
    \/ \E call \in KeyCalls : SecondKeyed(call)

SpecKeys == InitKeys /\ [][NextKeys]_vars

InitForecast ==
    /\ config = [weatherApiKey |-> TRUE, openWeatherApiKey |-> TRUE]
    /\ now = 0
    /\ currentCache = <<>>
    /\ forecastCache = <<>>
    /\ historicalCache = <<>>
    /\ calls = [c \in Callers |-> Idle]
    /\ started = 0
    /\ AlertsInit
    /\ ev = EvIdle
    /\ adapter = AdIdle
    /\ lru = LruIdle
    /\ keyed = KeyIdle
    /\ \E n \in DaysArgs : fc = [FcIdle EXCEPT !.pc = "start", !.days = n]

NextForecast ==
    \/ ForecastRequested
    \/ fc.pc = "http" /\ \E o \in NetOutcomes, list \in SlotLists : ForecastAnswered(o, list)

SpecForecast == InitForecast /\ [][NextForecast]_vars

TypeOK ==
    /\ now \in 0..MaxTime
    /\ Len(currentCache) <= CacheMax
    /\ Len(forecastCache) <= CacheMax
    /\ Len(historicalCache) <= CacheMax
    /\ \A c \in Callers : calls[c].pc \in {"idle", "wa", "ow", "done"}

(***************************************************************************)
(* Properties of the aggregator.                                           *)
(***************************************************************************)
Configured(provider) ==
    IF provider = "weatherapi" THEN config.weatherApiKey ELSE config.openWeatherApiKey

Failed(attempt) == attempt.outcome \notin {"pending", "ok"}

Done(c) == calls[c].pc = "done"

\* the first-priority provider was tried by c's finished current/forecast call
\* and failed, with the second provider configured as well
FirstFailed(c) ==
    /\ Done(c)
    /\ calls[c].op \in {"current", "forecast"}
    /\ config.weatherApiKey /\ config.openWeatherApiKey
    /\ calls[c].attempts # <<>>
    /\ calls[c].attempts[1].provider = "weatherapi"
    /\ Failed(calls[c].attempts[1])

\* C1: fallback ordering.  With both providers configured, a current or
\* forecast call whose WeatherAPI attempt failed went on to OpenWeather, never
\* surfaces the WeatherAPI failure, and when OpenWeather succeeded returns
\* the record OpenWeather produced, tagged "openweather".
C1_FallbackToSecond ==
    \A c \in Callers :
        FirstFailed(c) =>
            /\ calls[c].err.from # "weatherapi"
            /\ Len(calls[c].attempts) = 2
            /\ calls[c].attempts[2].provider = "openweather"
            /\ calls[c].attempts[2].outcome = "ok" =>
                   /\ calls[c].outcome = "ok"
                   /\ calls[c].err = NoError
                   /\ calls[c].result = calls[c].attempts[2].produced
                   /\ calls[c].result.provider = "openweather"

C1_Witness ==
    \E c \in Callers :
        /\ FirstFailed(c)
        /\ calls[c].attempts[1].outcome = "TransportError"
        /\ Len(calls[c].attempts) = 2
        /\ calls[c].attempts[2].outcome = "ok"
        /\ calls[c].result.provider = "openweather"

\* C2: only a successful result or the aggregator's own terminal error
\* crosses the aggregator boundary; no adapter error reaches the caller.
C2_OnlyTerminalErrorCrosses ==
    \A c \in Callers :
        (Done(c) /\ calls[c].outcome = "error") => calls[c].err.from = "aggregator"

\* C3: cache hit short-circuit.  A call whose lookup found a live entry under
\* its key has returned that entry's value, invoked no adapter and issued no
\* network call.
C3_HitShortCircuits ==
    \A c \in Callers :
        (calls[c].pc # "idle" /\ calls[c].seen # NoEntry) =>
            /\ Done(c)
            /\ calls[c].outcome = "ok"
            /\ calls[c].result = calls[c].seen.value
            /\ calls[c].attempts = <<>>
            /\ calls[c].net = 0

C3_Witness ==
    \E c \in Callers :
        /\ Done(c)
        /\ calls[c].seen # NoEntry
        /\ calls[c].result = calls[c].seen.value
        /\ calls[c].attempts = <<>>

\* caller c, whose last getCurrentWeather call returned a record, calls
\* again with the same arguments while the entry that call returned is still
\* in the store, untouched and within its TTL
RepeatsWithinTtl(c) ==
    /\ Done(c)
    /\ calls[c].op = "current"
    /\ calls[c].outcome = "ok"
    /\ calls[c].intact
    /\ now - calls[c].entryStart <= TtlOf("current")
    /\ \E u \in UnitsIn : getCurrentWeather(c, calls[c].q, u)
    /\ calls'[c].key = calls[c].key

SecondIsServedFromCache(c) ==
    /\ calls'[c].pc = "done"
    /\ calls'[c].outcome = "ok"
    /\ calls'[c].result = calls[c].result
    /\ calls'[c].attempts = <<>>
    /\ calls'[c].net = 0

\* C4 (as stated): two consecutive identical getCurrentWeather calls within
\* the TTL, with no eviction in between, return the identical record and
\* cause exactly one upstream provider call in total.
C4_ExactlyOneUpstreamCall ==
    [][\A c \in Callers :
          (RepeatsWithinTtl(c) /\ calls[c].attempts # <<>>) =>
              /\ SecondIsServedFromCache(c)
              /\ calls[c].net + calls'[c].net = 1]_vars

\* C4 (amended): two consecutive identical getCurrentWeather calls within
\* the TTL, with no eviction in between, return the identical record, and
\* the second call causes no upstream call: the total is what the first call
\* issued, one call per provider it tried (at most two).
C4_SecondCallIsFree ==
    [][\A c \in Callers :
          RepeatsWithinTtl(c) =>
              /\ SecondIsServedFromCache(c)
              /\ calls[c].net + calls'[c].net = calls[c].net
              /\ calls[c].net <= 2]_vars

C4_Witness ==
    \E c \in Callers :
        /\ started = 2
        /\ \A d \in Callers \ {c} : calls[d].pc = "idle"
        /\ Done(c)
        /\ calls[c].op = "current"
        /\ calls[c].outcome = "ok"
        /\ calls[c].seen # NoEntry
        /\ calls[c].net = 0

\* C5: with no provider credential configured, a current or forecast call
\* fails with the no-provider error, invokes no adapter, issues no network
\* call, and nothing is ever written to a store.
C5_NothingConfigured ==
    (~config.weatherApiKey /\ ~config.openWeatherApiKey) =>
        /\ \A c \in Callers :
               (calls[c].pc # "idle" /\ calls[c].op \in {"current", "forecast"}) =>
                   /\ Done(c)
                   /\ calls[c].outcome = "error"
                   /\ calls[c].err = NoDataError(calls[c].op)
                   /\ calls[c].attempts = <<>>
                   /\ calls[c].net = 0
        /\ currentCache = <<>>
        /\ forecastCache = <<>>
        /\ historicalCache = <<>>

C5_Witness ==
    /\ ~config.weatherApiKey /\ ~config.openWeatherApiKey
    /\ \E c \in Callers :
           /\ Done(c)
           /\ calls[c].op = "current"
           /\ calls[c].outcome = "error"
           /\ calls[c].err.from = "aggregator"

\* C6: the terminal error of a call in which every configured provider was
\* tried and failed differs from the error raised when no provider is
\* configured.
C6_DistinguishesUnconfigured ==
    \A c \in Callers :
        (Done(c) /\ calls[c].outcome = "error" /\ calls[c].attempts # <<>>) =>
            calls[c].err # NoDataError(calls[c].op)

\* C7: within one call the providers are attempted one after another in the
\* order WeatherAPI, OpenWeather, each at most once; OpenWeather is invoked
\* only after WeatherAPI failed or when WeatherAPI is unconfigured, never
\* after WeatherAPI succeeded; a fetched result is the record of exactly one
\* provider.
C7_SequentialPriorityOrder ==
    \A c \in Callers :
        LET a == calls[c].attempts
            n == Len(a)
        IN /\ n <= 2
           /\ \A i \in 1..n : a[i].outcome = "pending" => (i = n /\ ~Done(c))
           /\ (calls[c].pc = "wa") <=> (n >= 1 /\ a[n] = Attempt("weatherapi"))
           /\ (calls[c].pc = "ow") <=> (n >= 1 /\ a[n] = Attempt("openweather"))
           /\ n = 2 => /\ a[1].provider = "weatherapi"
                       /\ a[2].provider = "openweather"
                       /\ Failed(a[1])
           /\ (n = 1 /\ a[1].provider = "openweather") => ~config.weatherApiKey
           /\ \A i \in 1..n : a[i].outcome = "ok" => i = n
           /\ Fresh(calls[c]) => /\ a[n].outcome = "ok"
                                 /\ calls[c].result = a[n].produced
                                 /\ calls[c].result.provider = a[n].provider

C7_Witness ==
    \E c \in Callers :
        /\ config.weatherApiKey /\ config.openWeatherApiKey
        /\ Fresh(calls[c])
        /\ Len(calls[c].attempts) = 1
        /\ calls[c].attempts[1].provider = "weatherapi"
        /\ calls[c].result.provider = "weatherapi"

\* C8: no call ever invokes an adapter whose API key is not configured.
C8_UnconfiguredNeverInvoked ==
    \A c \in Callers :
        \A i \in 1..Len(calls[c].attempts) : Configured(calls[c].attempts[i].provider)

C8_Witness ==
    \E c \in Callers :
        /\ ~config.weatherApiKey
        /\ config.openWeatherApiKey
        /\ Fresh(calls[c])
        /\ calls[c].attempts[1].provider = "openweather"

EntriesOf(store) == {store[i] : i \in 1..Len(store)}

\* the store of operation op after the step
StoreOfNext(op) ==
    CASE op = "current" -> currentCache'
      [] op = "forecast" -> forecastCache'
      [] OTHER -> historicalCache'

\* C9: getHistorical uses WeatherAPI only.  It never invokes the OpenWeather
\* adapter, and a call that finds WeatherAPI unconfigured or failing ends
\* with the terminal error and adds no entry to the historical store, even
\* with an OpenWeather credential configured.
C9_HistoricalWeatherApiOnly ==
    [][\A c \in Callers :
          /\ calls'[c].op = "historical" =>
                 /\ calls'[c].pc # "ow"
                 /\ \A i \in 1..Len(calls'[c].attempts) :
                        calls'[c].attempts[i].provider = "weatherapi"
          /\ ( /\ \/ \E q \in Queries, dt \in DatesIn : getHistorical(c, q, dt)
                  \/ calls[c].pc = "wa" /\ calls[c].op = "historical"
               /\ calls'[c].pc = "done"
               /\ \/ ~config.weatherApiKey
                  \/ calls'[c].attempts # <<>> /\ Failed(calls'[c].attempts[1]) )
             => /\ calls'[c].outcome = "error"
                /\ calls'[c].err = NoDataError("historical")
                /\ EntriesOf(historicalCache') \subseteq EntriesOf(historicalCache)]_vars

C9_Witness ==
    \E c \in Callers :
        /\ config.weatherApiKey /\ config.openWeatherApiKey
        /\ Done(c)
        /\ calls[c].op = "historical"
        /\ Len(calls[c].attempts) = 1
        /\ calls[c].attempts[1].outcome = "TransportError"
        /\ calls[c].outcome = "error"
        /\ historicalCache = <<>>

\* C10: when a call returns a freshly fetched result, the store of its kind
\* holds that result under the call's key, stamped with the current time, so
\* a lookup made right after the return finds it live.
C10_FreshResultIsCached ==
    [][\A c \in Callers :
          (calls[c].pc \in {"wa", "ow"} /\ Fresh(calls'[c])) =>
              LET op == calls'[c].op
                  key == calls'[c].key
              IN /\ Entry(StoreOfNext(op), key) = [value |-> calls'[c].result, start |-> now]
                 /\ LiveEntry(StoreOfNext(op), key, now', TtlOf(op)) # NoEntry
                 /\ CacheGet(StoreOfNext(op), key, now', TtlOf(op)) = calls'[c].result]_vars

C10_Witness ==
    \E c \in Callers :
        /\ Fresh(calls[c])
        /\ calls[c].op = "forecast"
        /\ now = calls[c].entryStart
        /\ Entry(forecastCache, calls[c].key) = [value |-> calls[c].result, start |-> now]

(***************************************************************************)
(* Properties of the alert registry.                                       *)
(***************************************************************************)
IdsOf(map) == { map[i].id : i \in 1..Len(map) }

StoredUnder(map, k) == map[MapGet(map, k)].ref

\* C11: every registerAlert call gets an id that no alert of the registry
\* has, makes the registry one entry longer, leaves every entry that was
\* there in place, and returns the record stored under the new id.
C11_RegisterAssignsFreshId ==
    [][\A def \in AlertDefs, id \in Ids :
           registerAlert(def, id) =>
               /\ id \notin IdsOf(alerts)
               /\ Len(alerts') = Len(alerts) + 1
               /\ \A i \in 1..Len(alerts) : alerts'[i] = alerts[i]
               /\ ret'.ref = StoredUnder(alerts', id)]_vars

\* C12: removeAlert(id) returns true exactly when the registry held the id;
\* afterwards the id is gone, the other entries and every record are as they
\* were, and removing an absent id returns false and changes no entry.
C12_RemoveReportsAndFrames ==
    [][\A id \in Ids :
           removeAlert(id) =>
               /\ ret'.ok = (id \in IdsOf(alerts))
               /\ id \notin IdsOf(alerts')
               /\ alerts' = SelectSeq(alerts, LAMBDA e : e.id # id)
               /\ objects' = objects
               /\ id \notin IdsOf(alerts) => (ret'.ok = FALSE /\ alerts' = alerts)]_vars

\* a removal that took one alert out and left another in place
C12_Witness ==
    /\ ret.op = "removeAlert"
    /\ ret.ok
    /\ Len(alerts) = 1
    /\ Len(objects) = 2

\* C13: listAlerts returns exactly the alerts registered and not since
\* removed, in the order of their registration.
C13_ListIsRegisteredNotRemoved == listAlerts = expected

(***************************************************************************)
(* Properties of the scheduler and its sweeps.                             *)
(***************************************************************************)
\* C14: at most one periodic timer is active, it is the one the handle names,
\* and the scheduler counts as started exactly while it runs.
C14_AtMostOneTimer ==
    /\ Cardinality(timers) <= 1
    /\ schedulerStarted <=> intervalHandle # NoHandle
    /\ timers = IF schedulerStarted THEN {intervalHandle} ELSE {}

\* the scheduler was stopped and started again: the second timer runs alone
C14_Witness ==
    /\ schedulerStarted
    /\ timersMade = 2
    /\ timers = {2}

\* C15: a sweep starts only while the scheduler is started, and
\* stopAlertScheduler leaves no timer and touches no sweep in flight.
C15_StopOnlyPreventsFutureSweeps ==
    [][/\ Len(sweeps') > Len(sweeps) => schedulerStarted
       /\ stopAlertScheduler => (timers' = {} /\ sweeps' = sweeps /\ objects' = objects)]_vars

\* a sweep that was in flight at the stop has notified since and is complete
C15_Witness ==
    /\ ~schedulerStarted
    /\ \E s \in 1..Len(sweeps) : sweeps[s].late /\ sweeps[s].pc = "done"

\* C16: a sweep never fails; it evaluates the alerts of its snapshot in
\* order, and a complete sweep has evaluated every one of them.
C16_SweepEvaluatesWholeSnapshot ==
    \A s \in 1..Len(sweeps) :
        /\ sweeps[s].pc # "failed"
        /\ sweeps[s].evaluated = SubSeq(sweeps[s].items, 1, sweeps[s].i - 1)
        /\ sweeps[s].pc = "done" => sweeps[s].evaluated = sweeps[s].items

\* a complete sweep over two alerts in which an evaluation failed
C16_Witness ==
    \E s \in 1..Len(sweeps) :
        /\ sweeps[s].pc = "done"
        /\ sweeps[s].caught
        /\ Len(sweeps[s].items) = 2
        /\ sweeps[s].evaluated = sweeps[s].items

(***************************************************************************)
(* Properties of the trip decision.  The adjusted threshold of the         *)
(* specification is the exact product: in tenths, 9, 10 or 11 times the    *)
(* configured value.                                                       *)
(***************************************************************************)
Factor(sensitivity) ==
    IF sensitivity = "high" THEN 9 ELSE IF sensitivity = "low" THEN 11 ELSE 10

Evaluated(type) ==
    /\ ev.pc = "done"
    /\ ev.alert.type = type
    /\ type # "rain" => ev.alert.threshold # NoThreshold

\* C17: a temp_above alert with a threshold trips exactly when the
\* temperature is >= threshold x 0.9 (high), x 1.1 (low) or x 1 (medium,
\* absent), and a temp_below alert exactly when it is <= that value.
C17_TempTripsAtAdjustedThreshold ==
    /\ Evaluated("temp_above") =>
           (ev.tripped <=>
                ev.obs.temperatureC >= Factor(ev.alert.sensitivity) * ev.alert.threshold)
    /\ Evaluated("temp_below") =>
           (ev.tripped <=>
                ev.obs.temperatureC <= Factor(ev.alert.sensitivity) * ev.alert.threshold)

TripsAs(sensitivity) == Trips([ev.alert EXCEPT !.sensitivity = sensitivity], ev.obs)

\* C18: for every condition type, threshold and observation, an alert that
\* trips with sensitivity low trips with medium, and one that trips with
\* medium trips with high.
C18_SensitivityOrdering ==
    ev.pc = "done" =>
        /\ TripsAs("low") => TripsAs("medium")
        /\ TripsAs("medium") => TripsAs("high")

\* C19: a rain alert asks for the forecast of daysAhead days (1 when absent)
\* and trips exactly when some returned day has a rain chance >= 45 (high),
\* 55 (low) or 50 (medium, absent), a day without a value counting as 0.
C19_RainTripsAtAdjustedFifty ==
    Evaluated("rain") =>
        /\ ev.asked = [op |-> "forecast",
                       days |-> IF ev.alert.daysAhead = NoDays THEN 1
                                ELSE ev.alert.daysAhead]
        /\ ev.tripped <=>
               \E i \in 1..Len(ev.obs.days) :
                   (IF ev.obs.days[i] = NoValue THEN 0 ELSE ev.obs.days[i])
                       >= Factor(ev.alert.sensitivity) * 50

\* C20: a wind_above alert with a threshold trips exactly when the wind
\* speed, 0 for a record without one, is >= the adjusted threshold.
C20_WindTripsAtAdjustedThreshold ==
    Evaluated("wind_above") =>
        (ev.tripped <=>
             (IF ev.obs.windKph = NoValue THEN 0 ELSE ev.obs.windKph)
                 >= Factor(ev.alert.sensitivity) * ev.alert.threshold)

(***************************************************************************)
(* Properties of notification.                                             *)
(***************************************************************************)
\* the trips logged so far, as <<sweep, position>> pairs
TripsLogged == { <<s, i>> \in (1..Len(sweeps)) \X (1..MaxAlerts + 1) : i <= Len(sweeps[s].sent) }

\* C21: every trip stamps lastTriggeredAt and dispatches one notification
\* through the alert's channel: a console line for console, a POST for webhook.
C21_TripStampsAndDispatches ==
    \A p \in TripsLogged :
        LET trip == sweeps[p[1]].sent[p[2]]
        IN /\ objects[trip.ref].lastTriggeredAt # Never
           /\ trip.via = objects[trip.ref].channel

\* C22: whenever an alert's condition holds in a sweep, that sweep notifies
\* it once, whether or not lastTriggeredAt is already set.
C22_NoCoolDown ==
    [][\A s \in 1..Len(sweeps), obs \in SweepObs("rain") \cup SweepObs("temp_above") :
           (AlertEvaluated(s, "ok", obs)
                /\ Trips(objects[sweeps[s].items[sweeps[s].i]], obs)) =>
               /\ Len(sweeps'[s].sent) = Len(sweeps[s].sent) + 1
               /\ sweeps'[s].sent[Len(sweeps'[s].sent)].ref = sweeps[s].items[sweeps[s].i]
               /\ sweeps'[s].sent[Len(sweeps'[s].sent)].via # "none"]_vars

\* C23: a registered alert has a webhookUrl exactly when its channel is webhook.
C23_WebhookUrlIffWebhook ==
    \A i \in 1..Len(alerts) :
        LET a == objects[alerts[i].ref]
        IN a.channel = "webhook" <=> a.webhookUrl # Undef

\* notifications dispatched for an alert after removeAlert took it out
SentAfterRemoval(ref) ==
    { p \in TripsLogged : LET trip == sweeps[p[1]].sent[p[2]]
                          IN trip.ref = ref /\ trip.removed /\ trip.via # "none" }

Removed(ref) == \A i \in 1..Len(expected) : expected[i] # ref

\* C29: a removed alert is notified at most once more after its removal, and
\* no sweep that starts after the removal has it in its snapshot.
C29_AtMostOnceAfterRemoval ==
    /\ [](\A ref \in 1..Len(objects) : Cardinality(SentAfterRemoval(ref)) <= 1)
    /\ [][Len(sweeps') > Len(sweeps) =>
              \A i \in 1..Len(sweeps'[Len(sweeps')].items) :
                  ~Removed(sweeps'[Len(sweeps')].items[i])]_vars

Unstamped(a) == [a EXCEPT !.lastTriggeredAt = Never]

TrippedInStep(ref) ==
    \E s \in 1..Len(sweeps) :
        /\ Len(sweeps'[s].sent) = Len(sweeps[s].sent) + 1
        /\ sweeps'[s].sent[Len(sweeps'[s].sent)].ref = ref

\* C30: the registry's entries change only in registerAlert and removeAlert
\* steps, and of an alert's fields only lastTriggeredAt ever changes, only in
\* a step in which that alert trips.
C30_SweepKeepsRegistry ==
    [][/\ alerts' # alerts =>
              \/ \E ch \in ChannelsIn, url \in UrlsIn, id \in Ids :
                     registerAlert(register_alert(ch, url), id)
              \/ \E def \in AlertDefs, id \in Ids : registerAlert(def, id)
              \/ \E id \in Ids : removeAlert(id)
       /\ \A ref \in 1..Len(objects) :
              /\ Unstamped(objects'[ref]) = Unstamped(objects[ref])
              /\ objects'[ref] # objects[ref] => TrippedInStep(ref)]_vars

\* an alert still registered that a finished sweep has stamped, beside one
\* that never tripped
C30_Witness ==
    /\ \E s \in 1..Len(sweeps) : sweeps[s].pc = "done" /\ Len(sweeps[s].sent) = 1
    /\ \E i \in 1..Len(alerts) : objects[alerts[i].ref].lastTriggeredAt # Never
    /\ \E i \in 1..Len(alerts) : objects[alerts[i].ref].lastTriggeredAt = Never

(***************************************************************************)
(* Properties of the adapters.                                             *)
(***************************************************************************)
Answered(op) == adapter.pc = "done" /\ adapter.op = op /\ adapter.outcome = "ok"

\* the requested day count as a length
DayCount(days) == IF days < 0 THEN 0 ELSE days

\* C24: a Forecast has at most `days` entries, in strictly ascending date
\* order, whichever provider produced it.
C24_ForecastTruncatedAndAscending ==
    Answered("forecast") =>
        /\ Len(adapter.daysOut) <= DayCount(adapter.days)
        /\ \A i \in 1..(Len(adapter.daysOut) - 1) :
               adapter.daysOut[i] < adapter.daysOut[i + 1]

\* a query that names a city, or gives both coordinates
HasPlace(q) == (q.city # Undef /\ q.city # "") \/ (q.lat # Undef /\ q.lon # Undef)

\* C25: an adapter operation fails with the invalid-query error exactly for
\* a query with neither a city nor a complete lat/lon pair, and then no
\* request has been issued; any other query is taken to the request.
C25_InvalidQueryBeforeNetwork ==
    adapter.pc \in {"http", "done"} =>
        /\ adapter.outcome = "InvalidQuery" <=> ~HasPlace(adapter.q)
        /\ ~HasPlace(adapter.q) => (adapter.net = 0 /\ adapter.pc = "done")
        /\ HasPlace(adapter.q) => adapter.net = 1

\* a latitude without a longitude and without a city was rejected, unsent
C25_Witness ==
    /\ adapter.pc = "done"
    /\ adapter.outcome = "InvalidQuery"
    /\ adapter.net = 0
    /\ adapter.q.lat = "0"
    /\ adapter.q.lon = Undef
    /\ adapter.q.city = Undef

(***************************************************************************)
(* Properties of a cache store.                                            *)
(***************************************************************************)
\* the key of the store whose last hit or set lies furthest back
LeastRecentlyUsed ==
    CHOOSE x \in KeysOf(lru.store) :
        \A y \in KeysOf(lru.store) : lru.used[x] <= lru.used[y]

\* C26: a set of a new key on a full store evicts exactly the entry whose
\* last hit or set lies furthest back; any other set evicts nothing.
C26_EvictsLeastRecentlyUsed ==
    [][\A k \in LruKeys :
           LruSet(k, WaRecord(1)) =>
               IF Len(lru.store) = LruMax /\ k \notin KeysOf(lru.store)
               THEN KeysOf(lru'.store) = (KeysOf(lru.store) \ {LeastRecentlyUsed}) \cup {k}
               ELSE KeysOf(lru'.store) = KeysOf(lru.store) \cup {k}]_vars

\* the overflow removed an entry younger than one that stays: the older one
\* had been read in between
C26_Witness ==
    /\ lru.last.op = "set"
    /\ \E y \in lru.last.evicted, x \in KeysOf(lru.store) :
           /\ lru.born[x] < lru.born[y]
           /\ lru.used[x] > lru.born[x]

(***************************************************************************)
(* Properties of the aggregator's caches over time and under concurrency.  *)
(***************************************************************************)
\* caller c's call begins in this step: the lookup and what follows it up to
\* the first await
Lookup(c) == Enter(c, calls'[c].op, calls'[c].q, calls'[c].key)

\* the store holds an entry under key whose age at time t is within ttl
Unexpired(store, key, t, ttl) ==
    \E i \in 1..Len(store) : store[i].key = key /\ t - store[i].start <= ttl

\* the store holds an entry under key whose age at time t is beyond ttl
Expired(store, key, t, ttl) ==
    \E i \in 1..Len(store) : store[i].key = key /\ t - store[i].start > ttl

ServedFromCache(call) == call.pc = "done" /\ call.outcome = "ok" /\ call.attempts = <<>>

\* C27: a lookup returns an entry exactly while the time since its last set
\* is within the store's TTL; an entry beyond it is dropped and the call goes
\* on to the providers as on a miss; a hit returns the entry's value and
\* leaves its age stamp as it was.
C27_TtlExpiry ==
    [][\A c \in Callers :
           Lookup(c) =>
               LET op == calls'[c].op
                   key == calls'[c].key
                   store == StoreOf(op)
               IN /\ ServedFromCache(calls'[c]) <=> Unexpired(store, key, now, TtlOf(op))
                  /\ Expired(store, key, now, TtlOf(op)) =>
                         /\ IndexOf(StoreOfNext(op), key) = 0
                         /\ calls'[c].attempts # <<>> \/ calls'[c].outcome = "error"
                  /\ Unexpired(store, key, now, TtlOf(op)) =>
                         /\ calls'[c].result = Entry(store, key).value
                         /\ Entry(StoreOfNext(op), key) = Entry(store, key)]_vars

\* c is fetching from a provider although d's call had stored a record under
\* the same key: that entry had outlived its TTL and c's lookup dropped it
C27_Witness ==
    \E c, d \in Callers :
        /\ c # d
        /\ calls[c].pc \in {"wa", "ow"}
        /\ Fresh(calls[d])
        /\ calls[d].op = calls[c].op
        /\ calls[d].key = calls[c].key
        /\ ~calls[d].intact
        /\ now - calls[d].entryStart > TtlOf(calls[d].op)
        /\ IndexOf(StoreOf(calls[c].op), calls[c].key) = 0

\* c and d called with the same key and both missed; d has fetched and
\* written, and its entry is still within its TTL (so c's lookup came before
\* d's write); c is still waiting for a provider
DuplicateMiss(c, d) ==
    /\ c # d
    /\ calls[c].pc \in {"wa", "ow"}
    /\ calls[c].seen = NoEntry
    /\ Fresh(calls[d])
    /\ calls[d].seen = NoEntry
    /\ calls[d].op = calls[c].op
    /\ calls[d].key = calls[c].key
    /\ now - calls[d].entryStart <= TtlOf(calls[d].op)

\* the record the last adapter the call invoked has produced
Fetched(call) == call.attempts[Len(call.attempts)].produced

\* C28: when the second of two concurrent duplicate misses completes, the
\* store holds exactly one entry for the key, with the value that second call
\* wrote, and each of the two callers has the record it fetched itself.
C28_LastWriterWins ==
    [][\A c, d \in Callers :
           (DuplicateMiss(c, d) /\ Fresh(calls'[c])) =>
               LET store == StoreOfNext(calls[c].op)
                   key == calls[c].key
               IN /\ Cardinality({ i \in 1..Len(store) : store[i].key = key }) = 1
                  /\ Entry(store, key).value = calls'[c].result
                  /\ calls'[c].result = Fetched(calls'[c])
                  /\ calls'[d].result = calls[d].result
                  /\ calls'[d].result = Fetched(calls'[d])]_vars

\* both calls missed, fetched different records and wrote at the same time;
\* the store holds one of the two
C28_Witness ==
    \E c, d \in Callers :
        /\ c # d
        /\ Fresh(calls[c]) /\ Fresh(calls[d])
        /\ calls[c].seen = NoEntry /\ calls[d].seen = NoEntry
        /\ calls[c].op = calls[d].op
        /\ calls[c].key = calls[d].key
        /\ calls[c].entryStart = calls[d].entryStart
        /\ calls[c].result # calls[d].result
        /\ calls[c].net > 0 /\ calls[d].net > 0
        /\ Entry(StoreOf(calls[c].op), calls[c].key).value = calls[c].result

(***************************************************************************)
(* Properties of webhook dispatch and of overlapping sweeps.               *)
(***************************************************************************)
\* the alert a sweep is at
ItemOf(sw) == sw.items[sw.i]

\* C31: when the POST of a webhook trip fails, the sweep moves on to its next
\* alert (or ends) without a second POST and without a second notification,
\* nothing is reported to the loop of pollAlerts, and the alert keeps the
\* lastTriggeredAt the trip gave it; a sweep is never stopped by a failure.
C31_WebhookBestEffort ==
    /\ [][\A s \in 1..Len(sweeps) :
              WebhookSettled(s, "error") =>
                  /\ sweeps'[s].i = sweeps[s].i + 1
                  /\ sweeps'[s].pc = IF sweeps[s].i = Len(sweeps[s].items) THEN "done" ELSE "fetch"
                  /\ sweeps'[s].sent = sweeps[s].sent
                  /\ sweeps'[s].caught = sweeps[s].caught
                  /\ objects' = objects
                  /\ objects[ItemOf(sweeps[s])].lastTriggeredAt # Never]_vars
    /\ [](\A s \in 1..Len(sweeps) :
              /\ sweeps[s].pc # "failed"
              /\ sweeps[s].pc = "post" =>
                     /\ Len(sweeps[s].sent) > 0
                     /\ sweeps[s].sent[Len(sweeps[s].sent)].ref = ItemOf(sweeps[s])
                     /\ sweeps[s].sent[Len(sweeps[s].sent)].via = "webhook")

\* a sweep has ended whose first alert tripped through its webhook and whose
\* second alert was evaluated after the POST had settled, failed or not
C31_Witness ==
    \E s \in 1..Len(sweeps) :
        /\ sweeps[s].pc = "done"
        /\ Len(sweeps[s].items) = 2
        /\ sweeps[s].evaluated = sweeps[s].items
        /\ ~sweeps[s].caught
        /\ Len(sweeps[s].sent) > 0
        /\ sweeps[s].sent[1].via = "webhook"
        /\ sweeps[s].sent[1].ref = sweeps[s].items[1]
        /\ objects[sweeps[s].items[1]].lastTriggeredAt # Never

\* a sweep that has not returned yet
InFlight(sw) == sw.pc \in {"fetch", "post"}

\* the alerts a sweep has notified
NotifiedBy(sw) == { sw.sent[k].ref : k \in 1..Len(sw.sent) }

\* C37: a tick of a live interval can start a sweep in every state, whatever
\* the sweeps started before are doing; a sweep still awaiting does not hold
\* it back.
C37_SweepsNotExclusive == \A t \in timers : ENABLED pollAlerts(t)

\* two sweeps are in flight at once and both have notified the same alert
C37_Witness ==
    \E s1, s2 \in 1..Len(sweeps) :
        /\ s1 < s2
        /\ InFlight(sweeps[s1])
        /\ InFlight(sweeps[s2])
        /\ NotifiedBy(sweeps[s1]) \cap NotifiedBy(sweeps[s2]) # {}
        /\ ItemOf(sweeps[s1]) = ItemOf(sweeps[s2])

(***************************************************************************)
(* Alerts registered without a threshold.                                  *)
(***************************************************************************)
\* the alert under evaluation is a temperature or wind alert without threshold
Thresholdless ==
    /\ ev.alert.type \in {"temp_above", "temp_below", "wind_above"}
    /\ ev.alert.threshold = NoThreshold

\* C39: a temp_above, temp_below or wind_above alert without a threshold
\* still asks the aggregator for the current conditions, and does not trip
\* whatever they are and whatever its sensitivity.
C39_ThresholdlessNeverTrips ==
    Thresholdless =>
        /\ ev.pc \in {"fetch", "done"} => ev.asked = [op |-> "current", days |-> NoDays]
        /\ ~ev.tripped

\* a temp_below alert without threshold was evaluated on a reading below
\* every threshold of the model
C39_Witness ==
    /\ Thresholdless
    /\ ev.pc = "done"
    /\ ev.alert.type = "temp_below"
    /\ ev.obs.temperatureC < 0
    /\ ev.asked.op = "current"
    /\ ~ev.tripped

(***************************************************************************)
(* Properties of the cache key.                                            *)
(***************************************************************************)
\* the two calls have the same kind, the same query and the same parameters,
\* an omitted units or day count standing for its default
SameCall(a, b) ==
    /\ a.kind = b.kind
    /\ a.q = b.q
    /\ UnitsOr(a.units) = UnitsOr(b.units)
    /\ DaysOr(a.days) = DaysOr(b.days)
    /\ a.dateISO = b.dateISO

\* C32: two calls use the same cache key exactly when they agree in kind, in
\* every query field and in units, day count and date (an omitted units
\* being the default units).
C32_KeyIsCanonical ==
    keyed.pc = "done" => (keyed.ka = keyed.kb <=> SameCall(keyed.a, keyed.b))

(***************************************************************************)
(* Properties of the three stores of the aggregator.                       *)
(***************************************************************************)
Operations == {"current", "forecast", "historical"}

\* C33: each of the three stores holds at most its maximum number of
\* entries, and no two entries under one key.
C33_CapacityBound ==
    \A op \in Operations :
        /\ Len(StoreOf(op)) <= CacheMax
        /\ \A i, j \in 1..Len(StoreOf(op)) :
               StoreOf(op)[i].key = StoreOf(op)[j].key => i = j

\* two calls of one operation with different keys have both stored their
\* record, and the store, full, holds the later one only
C33_Witness ==
    \E c, d \in Callers :
        /\ Fresh(calls[c]) /\ Fresh(calls[d])
        /\ calls[c].op = calls[d].op
        /\ calls[c].key # calls[d].key
        /\ Len(StoreOf(calls[c].op)) = CacheMax
        /\ IndexOf(StoreOf(calls[c].op), calls[c].key) # 0
        /\ IndexOf(StoreOf(calls[c].op), calls[d].key) = 0
        /\ ~calls[d].intact

ProviderIds == {"weatherapi", "openweather"}

\* caller c returns from its await on an adapter in this step and stores the
\* record under its key
Stores(c, op, key) ==
    /\ calls[c].pc \in {"wa", "ow"}
    /\ Fresh(calls'[c])
    /\ calls'[c].op = op
    /\ calls'[c].key = key

\* C35: a record an adapter produced is tagged with that adapter's identity;
\* a call that fetched returns the record of the adapter that succeeded, a
\* call served from the cache returns the stored record, tagged; and the
\* stored record under a key stays as it is until a call stores anew.
C35_ProviderAttribution ==
    /\ [](\A c \in Callers :
              /\ \A k \in 1..Len(calls[c].attempts) :
                     calls[c].attempts[k].outcome = "ok" =>
                         calls[c].attempts[k].produced.provider = calls[c].attempts[k].provider
              /\ (Done(c) /\ calls[c].outcome = "ok") =>
                     /\ calls[c].result.provider \in ProviderIds
                     /\ IF calls[c].attempts # <<>>
                        THEN /\ calls[c].result = Fetched(calls[c])
                             /\ calls[c].result.provider =
                                    calls[c].attempts[Len(calls[c].attempts)].provider
                        ELSE calls[c].result = calls[c].seen.value)
    /\ [][\A op \in Operations :
              \A i \in 1..Len(StoreOf(op)) :
                  LET key == StoreOf(op)[i].key
                  IN (/\ IndexOf(StoreOfNext(op), key) # 0
                      /\ ~\E c \in Callers : Stores(c, op, key)) =>
                         Entry(StoreOfNext(op), key) = Entry(StoreOf(op), key)]_vars

\* one caller holds the record the fallback adapter produced, the other was
\* served the same record, tag included, from the cache
C35_Witness ==
    \E c, d \in Callers :
        /\ c # d
        /\ Fresh(calls[d])
        /\ Len(calls[d].attempts) = 2
        /\ calls[d].result.provider = "openweather"
        /\ Done(c)
        /\ calls[c].outcome = "ok"
        /\ calls[c].attempts = <<>>
        /\ calls[c].key = calls[d].key
        /\ calls[c].op = calls[d].op
        /\ calls[c].result = calls[d].result

(***************************************************************************)
(* What a call that does not return a record does to the stores.  After    *)
(* any step that leaves a call awaiting an adapter, upstream can still     *)
(* fail every request of the call, so each such step is a step of a call   *)
(* that ends in an error.                                                  *)
(***************************************************************************)
\* caller c resumes from its await on an adapter in this step
Resumes(c) ==
    \E o \in NetOutcomes \cup {"InvalidQuery"}, d \in Payloads :
        WeatherApiSettled(c, o, d) \/ OpenWeatherSettled(c, o, d)

Returns(call) == call.pc = "done" /\ call.outcome = "ok"

StoresUnchanged == UNCHANGED <<currentCache, forecastCache, historicalCache>>

\* the store without the entry under key, if that entry's age at t exceeds ttl
DropExpired(store, key, t, ttl) ==
    SelectSeq(store, LAMBDA e : ~(e.key = key /\ t - e.start > ttl))

\* C36 (as stated): no step of a call that ends in an error changes any of
\* the three stores.
C36_ErrorLeavesStores ==
    [][\A c \in Callers :
           ((Lookup(c) \/ Resumes(c)) /\ ~Returns(calls'[c])) => StoresUnchanged]_vars

\* C36 (amended): a call that ends in an error stores nothing and touches no
\* entry but one: its lookup removes the entry under its own key when that
\* entry has outlived its TTL.  Its resumptions change no store.
C36_ErrorStoresNothing ==
    [][\A c \in Callers :
           /\ (Resumes(c) /\ ~Returns(calls'[c])) => StoresUnchanged
           /\ (Lookup(c) /\ ~Returns(calls'[c])) =>
                  \A op \in Operations :
                      StoreOfNext(op) =
                          IF op = calls'[c].op
                          THEN DropExpired(StoreOf(op), calls'[c].key, now, TtlOf(op))
                          ELSE StoreOf(op)]_vars

\* c's call ended in an error after its lookup had removed the expired entry
\* that d's call had stored under the same key; the store holds nothing
C36_Witness ==
    \E c, d \in Callers :
        /\ c # d
        /\ Done(c)
        /\ calls[c].outcome = "error"
        /\ calls[c].attempts # <<>>
        /\ Fresh(calls[d])
        /\ calls[d].op = calls[c].op
        /\ calls[d].key = calls[c].key
        /\ ~calls[d].intact
        /\ now - calls[d].entryStart > TtlOf(calls[d].op)
        /\ StoreOf(calls[c].op) = <<>>

(***************************************************************************)
(* A fallback result in the cache.                                         *)
(***************************************************************************)
\* the lookup of c's call found a live record of the fallback provider,
\* although the first-priority provider is configured
FoundFallback(c) ==
    /\ calls[c].pc # "idle"
    /\ config.weatherApiKey
    /\ calls[c].seen # NoEntry
    /\ calls[c].seen.value.provider = "openweather"

\* C38: a call whose lookup finds a live record of the fallback provider
\* returns that record and invokes no adapter, the first-priority one
\* included; a call invokes the first-priority adapter only when its lookup
\* found no live entry under its key.
C38_FallbackStaysCached ==
    \A c \in Callers :
        /\ FoundFallback(c) =>
               /\ Returns(calls[c])
               /\ calls[c].result = calls[c].seen.value
               /\ calls[c].attempts = <<>>
               /\ calls[c].net = 0
        /\ (calls[c].attempts # <<>> /\ calls[c].attempts[1].provider = "weatherapi") =>
               calls[c].seen = NoEntry

\* d's call fell back to OpenWeather after WeatherAPI had failed and stored
\* the record; c's call with the same key was served that record
C38_Witness ==
    \E c, d \in Callers :
        /\ c # d
        /\ FoundFallback(c)
        /\ Returns(calls[c])
        /\ calls[c].net = 0
        /\ Fresh(calls[d])
        /\ calls[d].attempts[1].provider = "weatherapi"
        /\ calls[d].attempts[1].outcome # "ok"
        /\ calls[d].key = calls[c].key
        /\ calls[d].op = calls[c].op
        /\ calls[c].seen.value = calls[d].result

(***************************************************************************)
(* Properties of the bucketing of sub-daily samples.                       *)
(***************************************************************************)
\* the samples of the answer that fall on a UTC date
SamplesOn(date) == { i \in 1..Len(fc.list) : fc.list[i].dt \div DayLength = date }

SampledDates == { fc.list[i].dt \div DayLength : i \in 1..Len(fc.list) }

RainFlagged(date) == { i \in SamplesOn(date) : fc.list[i].rain > 0 }

\* p is 100 * k / n rounded to the nearest integer, a half going up
IsRoundedPct(p, k, n) == 2 * n * p <= 200 * k + n /\ 200 * k + n < 2 * n * (p + 1)

OutDates == { fc.out[j].date : j \in 1..Len(fc.out) }

Least(a, b) == IF a < b THEN a ELSE b

\* C34: every output day is a UTC date that has samples; its rain chance is
\* the rounded percentage of that date's samples flagged with rain, its max
\* and min are the extrema of that date's samples; the output days are in
\* ascending date order and are the earliest sampled dates, as many as were
\* requested.
C34_BucketsByUtcDate ==
    (fc.pc = "done" /\ fc.outcome = "ok") =>
        /\ \A j \in 1..Len(fc.out) :
               LET day == fc.out[j]
                   on == SamplesOn(day.date)
               IN /\ on # {}
                  /\ IsRoundedPct(day.chanceOfRainPct,
                                  Cardinality(RainFlagged(day.date)), Cardinality(on))
                  /\ \A i \in on : fc.list[i].temp <= day.maxTempC /\ fc.list[i].temp >= day.minTempC
                  /\ \E i \in on : fc.list[i].temp = day.maxTempC
                  /\ \E i \in on : fc.list[i].temp = day.minTempC
        /\ \A j \in 1..(Len(fc.out) - 1) : fc.out[j].date < fc.out[j + 1].date
        /\ OutDates \subseteq SampledDates
        /\ \A d \in OutDates, e \in SampledDates \ OutDates : d < e
        /\ Len(fc.out) = Least(DayCount(fc.days), Cardinality(SampledDates))
====
